---- MODULE Spec2Model ----
(***************************************************************************)
(* A model of the flattened-device-tree decoder: the bounds-checked cursor *)
(* MiniStream (src/src/util.rs) and the recursive-descent parser           *)
(* DeviceTreeParser (src/src/parser.rs).                                   *)
(*                                                                         *)
(* Conventions.  A buffer is a sequence of bytes (0..255); Rust's buf[i]   *)
(* is buf[i+1] here and positions are the 0-based positions of the code.   *)
(* A u32 is the tuple of its four bytes, most significant first (the magic *)
(* word 0xd00dfeed exceeds the integers TLC computes with); U32Val gives   *)
(* its value where the code uses it as a number.  Every operation returns  *)
(* a record [kind, pos, val]: kind is "Ok", an error name, or "Panic" (an  *)
(* out-of-bounds index aborts the program), pos is the cursor position the *)
(* operation leaves behind, val is what it returned.                       *)
(*                                                                         *)
(* The target modelled is a 64-bit little-endian host: pos + len never     *)
(* wraps for a u32 len, and the native load of peek_u32_le sees the bytes  *)
(* least significant first.                                                *)
(***************************************************************************)
EXTENDS Integers, Sequences, FiniteSets, TLC

VARIABLES
    buf,            \* MiniStream.buf
    pos,            \* MiniStream.pos
    string_offset,  \* DeviceTreeParser.string_offset
    last,           \* the cursor operation applied last (cursor specification)
    pc,             \* where parse() stands
    stack,          \* the nodes node() is building, innermost last
    result,         \* what parse() returned: "Ok", an error, or "Panic"
    header,         \* the DeviceTreeHeader
    tree,           \* the root Node of the DeviceTree returned
    tagLog,         \* the tags consumed since the seek, with their positions
    propLog,        \* the payload span of every property decoded
    input           \* how buf was built

vars == <<buf, pos, string_offset, last,
          pc, stack, result, header, tree, tagLog, propLog, input>>

parserVars == <<pc, stack, result, header, tree, tagLog, propLog, input>>

----------------------------------------------------------------------------
(* Results *)

Ok(p, v) == [kind |-> "Ok", pos |-> p, val |-> v]

Fail(k, p) == [kind |-> k, pos |-> p, val |-> <<>>]

ReadPastEnd(p) == Fail("ReadPastEnd", p)

Panic(p) == Fail("Panic", p)

\* Rust's b[from..to]
Slice(b, from, to) == SubSeq(b, from + 1, to)

----------------------------------------------------------------------------
(* MiniStream, src/src/util.rs *)

\* The largest usize the model computes with.  The only place the width of
\* usize matters is the bitwise complement of line 52; a slice is never
\* longer than isize::MAX, so !pos < buf.len() has the same outcome at every
\* width.
UsizeMax == 2147483647

\* !x on a usize: the bitwise complement
NotUsize(x) == UsizeMax - x

align(b, p) ==
    LET m == p % 4 IN
    IF m # 0
    THEN LET step == 4 - m IN
         IF step + p >= Len(b) THEN ReadPastEnd(p) ELSE Ok(p + step, <<>>)
    ELSE Ok(p, <<>>)

\* One turn of the loop of read_string0 with the cursor at q: the index of
\* line 46 panics; a zero byte ends the loop; line 52 compares the
\* complement of the position, so it returns the error only if
\* !pos < buf.len(); otherwise the loop goes round.
StringStep(b, q) ==
    IF q >= Len(b) THEN "panic"
    ELSE IF b[q + 1] = 0 THEN "found"
    ELSE IF NotUsize(q + 1) < Len(b) THEN "error"
    ELSE "continue"

\* The loop leaves at the first turn that does not go round (the turn at
\* buf.len() panics, so there is one).
read_string0(b, p) ==
    IF p >= Len(b) THEN Panic(p)
    ELSE LET q == CHOOSE i \in p..Len(b) :
                      /\ StringStep(b, i) # "continue"
                      /\ \A j \in p..(i - 1) : StringStep(b, j) = "continue"
         IN CASE StringStep(b, q) = "panic" -> Panic(q)
              [] StringStep(b, q) = "found" -> Ok(q + 1, Slice(b, p, q + 1))
              [] StringStep(b, q) = "error" -> ReadPastEnd(q + 1)

read_bytes(b, p, len) ==
    IF p + len < Len(b) THEN Ok(p + len, Slice(b, p, p + len))
    ELSE ReadPastEnd(p)

peek_bytes(b, p, len) ==
    IF p + len < Len(b) THEN Ok(p, Slice(b, p, p + len))
    ELSE ReadPastEnd(p)

\* *(ptr as *const u32) on a little-endian host: the first byte in memory is
\* the least significant one
NativeU32(bytes) == <<bytes[4], bytes[3], bytes[2], bytes[1]>>

\* (val >> 24) & 0xff | (val >> 8) & 0xff00 | (val << 8) & 0xff0000 | (val << 24) & 0xff000000
SwapBytes(w) == <<w[4], w[3], w[2], w[1]>>

peek_u32_le(b, p) ==
    IF p + 4 < Len(b) THEN Ok(p, SwapBytes(NativeU32(Slice(b, p, p + 4))))
    ELSE ReadPastEnd(p)

read_u32_le(b, p) ==
    LET r == peek_u32_le(b, p) IN
    IF r.kind = "Ok" THEN Ok(p + 4, r.val) ELSE r

\* The load of line 83 is a dereference of a *const u32 made from a byte
\* pointer: at a position that is not a multiple of 4 (the buffer itself a
\* heap allocation, aligned) it is undefined behaviour, and a build either
\* loads the four bytes or faults.
U32Outcomes(r) ==
    {r} \cup (IF r.kind = "Ok" /\ r.pos % 4 # 0 THEN {Fail("Fault", r.pos)} ELSE {})

seek(b, p, position) ==
    IF position >= Len(b) THEN ReadPastEnd(p) ELSE Ok(position, <<>>)

\* `as usize` of a u32
U32Val(w) == ((w[1] * 256 + w[2]) * 256 + w[3]) * 256 + w[4]

----------------------------------------------------------------------------
(* DeviceTreeParser, src/src/parser.rs: the operations on the cursor *)

\* impl From<MiniStreamReadError> for ParseError
FromReadError(r) == IF r.kind = "ReadPastEnd" THEN Fail("ReadError", r.pos) ELSE r

\* the first i in 0..4 with block[i] == 0
FirstZero(block) ==
    CHOOSE i \in 0..3 : block[i + 1] = 0 /\ \A j \in 0..(i - 1) : block[j + 1] # 0

HasZero(block) == \E i \in 1..4 : block[i] = 0

\* The 'search loop of block_string0: block n (from 0) is read at p + 4n as
\* long as every earlier read succeeded and found no zero byte.  The loop
\* leaves at the first block that cannot be read or holds a zero byte.
block_search(b, p) ==
    LET block(n) == read_bytes(b, p + 4 * n, 4)
        leaves(n) == block(n).kind # "Ok" \/ HasZero(block(n).val)
        n == CHOOSE i \in 0..Len(b) : leaves(i) /\ \A j \in 0..(i - 1) : ~leaves(j)
    IN IF block(n).kind # "Ok" THEN FromReadError(block(n))
       ELSE Ok(block(n).pos,
               [num_blocks |-> n + 1, offset |-> 4 - FirstZero(block(n).val)])

block_string0(b, p) ==
    LET s == block_search(b, p) IN
    IF s.kind # "Ok" THEN s
    ELSE LET k == seek(b, s.pos, p) IN
         IF k.kind # "Ok" THEN FromReadError(k)
         ELSE LET d == read_bytes(b, k.pos, s.val.num_blocks * 4) IN
              IF d.kind # "Ok" THEN FromReadError(d)
              ELSE Ok(d.pos, Slice(d.val, 0, Len(d.val) - s.val.offset))

\* far_string0 without the seek back of line 189
far_string0_no_restore(b, p, so, offset) ==
    LET k == seek(b, p, so + offset) IN
    IF k.kind # "Ok" THEN FromReadError(k)
    ELSE LET s == read_string0(b, k.pos) IN
         IF s.kind # "Ok" THEN FromReadError(s)
         ELSE Ok(s.pos, s.val)

far_string0(b, p, so, offset) ==
    LET k == seek(b, p, so + offset) IN
    IF k.kind # "Ok" THEN FromReadError(k)
    ELSE LET s == read_string0(b, k.pos) IN
         IF s.kind # "Ok" THEN FromReadError(s)
         ELSE LET back == seek(b, s.pos, p) IN
              IF back.kind # "Ok" THEN FromReadError(back)
              ELSE Ok(back.pos, s.val)

----------------------------------------------------------------------------
(* DeviceTreeParser: tags *)

FDT_BEGIN_NODE == <<0, 0, 0, 1>>

FDT_END_NODE == <<0, 0, 0, 2>>

FDT_PROP == <<0, 0, 0, 3>>

FDT_END == <<0, 0, 0, 9>>

FDT_MAGIC == <<208, 13, 254, 237>>

\* Tag::from_u32
Tag_from_u32(w) ==
    IF w = FDT_BEGIN_NODE THEN "BeginNode"
    ELSE IF w = FDT_END_NODE THEN "EndNode"
    ELSE IF w = FDT_PROP THEN "Property"
    ELSE IF w = FDT_END THEN "End"
    ELSE IF w = FDT_MAGIC THEN "Magic"
    ELSE "InvalidTag"

\* the position is the one read_u32_le left: the word is consumed before
\* from_u32 rejects it
tag(b, p) ==
    LET r == read_u32_le(b, p) IN
    IF r.kind # "Ok" THEN FromReadError(r)
    ELSE IF Tag_from_u32(r.val) = "InvalidTag" THEN Fail("InvalidTag", r.pos)
    ELSE Ok(r.pos, Tag_from_u32(r.val))

peek_tag(b, p) ==
    LET r == peek_u32_le(b, p) IN
    IF r.kind # "Ok" THEN FromReadError(r)
    ELSE IF Tag_from_u32(r.val) = "InvalidTag" THEN Fail("InvalidTag", r.pos)
    ELSE Ok(r.pos, Tag_from_u32(r.val))

\* accept_tag taking a tag it cannot read for a tag that does not match
accept_tag_swallow(b, p, t) ==
    LET k == peek_tag(b, p) IN
    IF k.kind # "Ok" THEN Ok(p, FALSE)
    ELSE IF k.val = t
         THEN LET c == tag(b, p) IN IF c.kind # "Ok" THEN c ELSE Ok(c.pos, TRUE)
         ELSE Ok(p, FALSE)

accept_tag(b, p, t) ==
    LET k == peek_tag(b, p) IN
    IF k.kind # "Ok" THEN k
    ELSE IF k.val = t
         THEN LET c == tag(b, p) IN IF c.kind # "Ok" THEN c ELSE Ok(c.pos, TRUE)
         ELSE Ok(p, FALSE)

expect_tag(b, p, t) ==
    LET a == accept_tag(b, p, t) IN
    IF a.kind # "Ok" THEN a
    ELSE IF ~a.val THEN Fail("UnexpectedTag", a.pos)
    ELSE Ok(a.pos, <<>>)

----------------------------------------------------------------------------
(* DeviceTreeParser::parse: the header *)

\* n consecutive read_u32_le from p, stopping at the first that fails: val is
\* the words read, pos the position after the last of them
ReadWords(b, p, n) ==
    LET word(i) == read_u32_le(b, p + 4 * (i - 1))
        k == Cardinality({i \in 1..n : \A j \in 1..i : word(j).kind = "Ok"})
    IN [kind |-> IF k = n THEN "Ok" ELSE "ReadError",
        pos |-> p + 4 * k,
        val |-> [i \in 1..k |-> word(i).val]]

\* lines 196-206: the magic and the six fields every version has
parse_fixed(b, p) ==
    LET m == tag(b, p) IN
    IF m.kind # "Ok" THEN m
    ELSE IF m.val # "Magic" THEN Fail("InvalidMagic", m.pos)
    ELSE ReadWords(b, m.pos, 6)

HasBootCpuidPhys(version) == version > 2

\* the gate of size_dt_strings off by one
HasSizeDtStrings_Ge(version) == version >= 3

HasSizeDtStrings(version) == version > 3

HasSizeDtStruct(version) == version > 17

\* lines 208-223: the fields the version gates, in order; val is the words
\* read for them
parse_gated(b, p, version) ==
    ReadWords(b, p, Cardinality({i \in 1..3 :
        <<HasBootCpuidPhys(version), HasSizeDtStrings(version),
          HasSizeDtStruct(version)>>[i]}))

\* lines 208-241: the value of gated field i (1: boot_cpuid_phys,
\* 2: size_dt_strings, 3: size_dt_struct), 0 when it is not read
GatedField(version, words, i) ==
    LET gates == <<HasBootCpuidPhys(version), HasSizeDtStrings(version),
                   HasSizeDtStruct(version)>>
    IN IF gates[i] THEN U32Val(words[Cardinality({j \in 1..i : gates[j]})]) ELSE 0

----------------------------------------------------------------------------
(* The cursor driven directly: any operation, at any position, on any      *)
(* small buffer.  last records the operation applied last: its name, its   *)
(* argument, the position it started from and what it returned.            *)

MaxBufLen == 6

MaxStringOffset == 2

CursorBytes == {0, 97}

RECURSIVE SeqsUpTo(_, _)
SeqsUpTo(S, n) ==
    IF n = 0 THEN {<<>>}
    ELSE LET shorter == SeqsUpTo(S, n - 1) IN
         shorter \cup {Append(s, x) : s \in {t \in shorter : Len(t) = n - 1}, x \in S}

IdleParser ==
    /\ pc = "idle"
    /\ stack = <<>>
    /\ result = "none"
    /\ header = <<>>
    /\ tree = <<>>
    /\ tagLog = <<>>
    /\ propLog = <<>>
    /\ input = [kind |-> "bytes"]

\* MiniStream::new / DeviceTreeParser::new
InitCursor ==
    /\ buf \in SeqsUpTo(CursorBytes, MaxBufLen)
    /\ pos = 0
    /\ string_offset \in 0..MaxStringOffset
    /\ last = [op |-> "new", arg |-> 0, pre |-> 0, res |-> Ok(0, <<>>)]
    /\ IdleParser

\* a panic or a fault ends the program
Running == last.res.kind \notin {"Panic", "Fault"}

Apply(op, arg, r) ==
    /\ Running
    /\ last' = [op |-> op, arg |-> arg, pre |-> pos, res |-> r]
    /\ pos' = r.pos
    /\ UNCHANGED <<buf, string_offset, parserVars>>

ReadBytes == \E n \in 0..(MaxBufLen + 1) : Apply("read_bytes", n, read_bytes(buf, pos, n))

PeekBytes == \E n \in 0..(MaxBufLen + 1) : Apply("peek_bytes", n, peek_bytes(buf, pos, n))

PeekU32 == \E r \in U32Outcomes(peek_u32_le(buf, pos)) : Apply("peek_u32_le", 4, r)

ReadU32 ==
    \E r \in U32Outcomes(peek_u32_le(buf, pos)) :
        Apply("read_u32_le", 4, IF r.kind = "Ok" THEN read_u32_le(buf, pos) ELSE r)

ReadString0 == Apply("read_string0", 0, read_string0(buf, pos))

Align == Apply("align", 0, align(buf, pos))

Seek == \E p \in 0..(MaxBufLen + 1) : Apply("seek", p, seek(buf, pos, p))

BlockString0 == Apply("block_string0", 0, block_string0(buf, pos))

FarString0 ==
    \E offset \in 0..MaxBufLen :
        Apply("far_string0", offset, far_string0(buf, pos, string_offset, offset))

NextCursor ==
    \/ ReadBytes
    \/ PeekBytes
    \/ PeekU32
    \/ ReadU32
    \/ ReadString0
    \/ Align
    \/ Seek
    \/ BlockString0
    \/ FarString0

SpecCursor == InitCursor /\ [][NextCursor]_vars

----------------------------------------------------------------------------
(* parse() step by step.  pc is the line parse() or node() stands at; the   *)
(* locals of the property loop are kept in the innermost frame of stack.   *)

Abort(r) ==
    /\ pc' = "done"
    /\ result' = r.kind
    /\ pos' = r.pos

\* lines 196-206
ParseFixed ==
    /\ pc = "start"
    /\ LET r == parse_fixed(buf, pos) IN
       IF r.kind = "Ok"
       THEN /\ header' = [totalsize |-> U32Val(r.val[1]),
                          off_dt_struct |-> U32Val(r.val[2]),
                          off_dt_strings |-> U32Val(r.val[3]),
                          off_mem_rsvmap |-> U32Val(r.val[4]),
                          version |-> U32Val(r.val[5]),
                          last_comp_version |-> U32Val(r.val[6])]
            /\ string_offset' = U32Val(r.val[3])
            /\ pos' = r.pos
            /\ pc' = "gated"
            /\ UNCHANGED result
       ELSE /\ Abort(r)
            /\ string_offset' = IF r.kind = "ReadError" /\ Len(r.val) >= 3
                                THEN U32Val(r.val[3]) ELSE string_offset
            /\ UNCHANGED header
    /\ UNCHANGED <<buf, last, stack, tree, tagLog, propLog, input>>

\* lines 208-241
ParseGated ==
    /\ pc = "gated"
    /\ LET r == parse_gated(buf, pos, header.version) IN
       IF r.kind = "Ok"
       THEN /\ header' = [totalsize |-> header.totalsize,
                          off_dt_struct |-> header.off_dt_struct,
                          off_dt_strings |-> header.off_dt_strings,
                          off_mem_rsvmap |-> header.off_mem_rsvmap,
                          version |-> header.version,
                          last_comp_version |-> header.last_comp_version,
                          boot_cpuid_phys |-> GatedField(header.version, r.val, 1),
                          size_dt_strings |-> GatedField(header.version, r.val, 2),
                          size_dt_struct |-> GatedField(header.version, r.val, 3)]
            /\ pos' = r.pos
            /\ pc' = "seek"
            /\ UNCHANGED result
       ELSE Abort(r) /\ UNCHANGED header
    /\ UNCHANGED <<buf, string_offset, last, stack, tree, tagLog, propLog, input>>

\* line 244
SeekStruct ==
    /\ pc = "seek"
    /\ LET k == FromReadError(seek(buf, pos, header.off_dt_struct)) IN
       IF k.kind = "Ok"
       THEN pos' = k.pos /\ pc' = "node" /\ UNCHANGED result
       ELSE Abort(k)
    /\ UNCHANGED <<buf, string_offset, last, stack, header, tree, tagLog, propLog, input>>

\* a call of node(), line 133; None is returned to line 247 (the root) or to
\* the child loop of lines 166-172, which breaks
NodeBegin ==
    /\ pc = "node"
    /\ LET a == accept_tag(buf, pos, "BeginNode") IN
       IF a.kind # "Ok" THEN Abort(a) /\ UNCHANGED tagLog
       ELSE IF a.val
       THEN /\ tagLog' = Append(tagLog, [pos |-> pos, tag |-> "BeginNode"])
            /\ pos' = a.pos
            /\ pc' = "name"
            /\ UNCHANGED result
       ELSE IF stack = <<>>
       THEN Abort(Fail("NoRootFound", a.pos)) /\ UNCHANGED tagLog
       ELSE pos' = a.pos /\ pc' = "end" /\ UNCHANGED <<result, tagLog>>
    /\ UNCHANGED <<buf, string_offset, last, stack, header, tree, propLog, input>>

\* lines 134-139
NodeName ==
    /\ pc = "name"
    /\ LET n == block_string0(buf, pos) IN
       IF n.kind # "Ok" THEN Abort(n) /\ UNCHANGED stack
       ELSE /\ stack' = Append(stack, [name |-> n.val, properties |-> <<>>,
                                       children |-> <<>>])
            /\ pos' = n.pos
            /\ pc' = "props"
            /\ UNCHANGED result
    /\ UNCHANGED <<buf, string_offset, last, header, tree, tagLog, propLog, input>>

\* line 141
PropAccept ==
    /\ pc = "props"
    /\ LET a == accept_tag(buf, pos, "Property") IN
       IF a.kind # "Ok" THEN Abort(a) /\ UNCHANGED tagLog
       ELSE IF a.val
       THEN /\ tagLog' = Append(tagLog, [pos |-> pos, tag |-> "Property"])
            /\ pos' = a.pos
            /\ pc' = "prop_len"
            /\ UNCHANGED result
       ELSE pos' = a.pos /\ pc' = "node" /\ UNCHANGED <<result, tagLog>>
    /\ UNCHANGED <<buf, string_offset, last, stack, header, tree, propLog, input>>

\* the innermost frame with local `what` set to v
WithLocal(what, v) ==
    [stack EXCEPT ![Len(stack)] =
        [f \in DOMAIN @ \cup {what} |-> IF f = what THEN v ELSE @[f]]]

\* line 142
PropLen ==
    /\ pc = "prop_len"
    /\ LET w == FromReadError(read_u32_le(buf, pos)) IN
       IF w.kind # "Ok" THEN Abort(w) /\ UNCHANGED stack
       ELSE /\ stack' = WithLocal("prop_data_len", U32Val(w.val))
            /\ pos' = w.pos
            /\ pc' = "prop_off"
            /\ UNCHANGED result
    /\ UNCHANGED <<buf, string_offset, last, header, tree, tagLog, propLog, input>>

\* line 144
PropOff ==
    /\ pc = "prop_off"
    /\ LET w == FromReadError(read_u32_le(buf, pos)) IN
       IF w.kind # "Ok" THEN Abort(w) /\ UNCHANGED stack
       ELSE /\ stack' = WithLocal("prop_name_offset", U32Val(w.val))
            /\ pos' = w.pos
            /\ pc' = "prop_data"
            /\ UNCHANGED result
    /\ UNCHANGED <<buf, string_offset, last, header, tree, tagLog, propLog, input>>

\* lines 146-149
PropData ==
    /\ pc = "prop_data"
    /\ LET d == FromReadError(read_bytes(buf, pos, stack[Len(stack)].prop_data_len)) IN
       IF d.kind # "Ok" THEN Abort(d) /\ UNCHANGED <<stack, propLog>>
       ELSE /\ stack' = WithLocal("prop_data", d.val)
            /\ propLog' = Append(propLog, [start |-> pos, len |-> Len(d.val)])
            /\ pos' = d.pos
            /\ pc' = "prop_align"
            /\ UNCHANGED result
    /\ UNCHANGED <<buf, string_offset, last, header, tree, tagLog, input>>

\* line 152
PropAlign ==
    /\ pc = "prop_align"
    /\ LET a == FromReadError(align(buf, pos)) IN
       IF a.kind # "Ok" THEN Abort(a)
       ELSE pos' = a.pos /\ pc' = "prop_name" /\ UNCHANGED result
    /\ UNCHANGED <<buf, string_offset, last, stack, header, tree, tagLog, propLog, input>>

\* lines 154-162
PropName ==
    /\ pc = "prop_name"
    /\ LET top == stack[Len(stack)]
           n == far_string0(buf, pos, string_offset, top.prop_name_offset)
       IN
       IF n.kind # "Ok" THEN Abort(n) /\ UNCHANGED stack
       ELSE /\ stack' = [stack EXCEPT ![Len(stack)] =
                            [name |-> top.name,
                             properties |-> Append(top.properties,
                                 [name |-> n.val, data |-> top.prop_data]),
                             children |-> top.children]]
            /\ pos' = n.pos
            /\ pc' = "props"
            /\ UNCHANGED result
    /\ UNCHANGED <<buf, string_offset, last, header, tree, tagLog, propLog, input>>

\* lines 175-177, and the caller's lines 167-168 or 248-251
NodeEnd ==
    /\ pc = "end"
    /\ LET e == expect_tag(buf, pos, "EndNode")
           top == Len(stack)
       IN
       IF e.kind # "Ok" THEN Abort(e) /\ UNCHANGED <<stack, tree, tagLog>>
       ELSE /\ tagLog' = Append(tagLog, [pos |-> pos, tag |-> "EndNode"])
            /\ pos' = e.pos
            /\ IF top = 1
               THEN /\ tree' = stack[top]
                    /\ stack' = <<>>
                    /\ pc' = "done"
                    /\ result' = "Ok"
               ELSE /\ stack' = [SubSeq(stack, 1, top - 1) EXCEPT ![top - 1].children =
                                    Append(@, stack[top])]
                    /\ pc' = "node"
                    /\ UNCHANGED <<tree, result>>
    /\ UNCHANGED <<buf, string_offset, last, header, propLog, input>>

Next ==
    \/ ParseFixed
    \/ ParseGated
    \/ SeekStruct
    \/ NodeBegin
    \/ NodeName
    \/ PropAccept
    \/ PropLen
    \/ PropOff
    \/ PropData
    \/ PropAlign
    \/ PropName
    \/ NodeEnd

----------------------------------------------------------------------------
(* The blobs parse() is run on: device trees encoded as the format lays    *)
(* them out (header, memory reservation map, structure block, strings      *)
(* block), every prefix of each, and blobs with one defect.                *)

MaxNameLen == 5

MaxPayloadLen == 5

MaxDepth == 3

MaxDeclaredLen == 34

VersionSet == {1, 2, 3, 4, 16, 17, 18, 20}

Str_compatible == <<99, 111, 109, 112, 97, 116, 105, 98, 108, 101>>

Str_name == <<110, 97, 109, 101>>

Str_test0 == <<116, 101, 115, 116, 0>>

Letters == <<97, 98, 99, 100, 101, 102, 103, 104, 105, 106, 107, 108>>

PayloadBytes == <<1, 0, 2, 3, 0, 0, 0, 3, 4, 5, 6, 7>>

\* "compatible" at offset 0, "name" at offset 11
StringsPlain == Str_compatible \o <<0>> \o Str_name \o <<0>>

\* further strings: three empty ones and "\x02x"
StringsOdd == StringsPlain \o <<0, 0, 0, 2>> \o <<120, 0>>

RECURSIVE Flatten(_)
Flatten(ss) == IF ss = <<>> THEN <<>> ELSE Head(ss) \o Flatten(Tail(ss))

Zeros(n) == [i \in 1..n |-> 0]

Pad4(bytes) == bytes \o Zeros((4 - (Len(bytes) % 4)) % 4)

U32Bytes(n) == <<0, n \div 65536, (n \div 256) % 256, n % 256>>

MkProp(nameoff, data) == [nameoff |-> nameoff, data |-> data, declared |-> Len(data)]

MkNode(name, properties, children) ==
    [name |-> name, properties |-> properties, children |-> children, closed |-> TRUE]

EncProp(p) == FDT_PROP \o U32Bytes(p.declared) \o U32Bytes(p.nameoff) \o Pad4(p.data)

RECURSIVE EncNode(_)
EncNode(n) ==
    FDT_BEGIN_NODE
    \o Pad4(n.name \o <<0>>)
    \o Flatten([i \in 1..Len(n.properties) |-> EncProp(n.properties[i])])
    \o Flatten([i \in 1..Len(n.children) |-> EncNode(n.children[i])])
    \o (IF n.closed THEN FDT_END_NODE ELSE <<>>)

RECURSIVE HasProps(_)
HasProps(n) ==
    \/ n.properties # <<>>
    \/ \E i \in 1..Len(n.children) : HasProps(n.children[i])

\* the ten 32-bit words of the header
HeaderLen == 4 * 10

RsvMap == Zeros(16)

\* layout "struct-first": header, map, structure block, strings block;
\* layout "strings-first": header, map, strings block, structure block
Blob(version, root, strings, layout) ==
    LET struct == EncNode(root) \o FDT_END
        first == HeaderLen + Len(RsvMap)
        off_struct == IF layout = "struct-first" THEN first
                      ELSE first + Len(Pad4(strings))
        off_strings == IF layout = "struct-first" THEN first + Len(struct) ELSE first
        body == IF layout = "struct-first" THEN struct \o strings
                ELSE Pad4(strings) \o struct
        total == first + Len(body)
    IN FDT_MAGIC \o U32Bytes(total) \o U32Bytes(off_struct) \o U32Bytes(off_strings)
       \o U32Bytes(HeaderLen) \o U32Bytes(version) \o U32Bytes(IF version < 16 THEN version ELSE 16)
       \o U32Bytes(1) \o U32Bytes(Len(strings)) \o U32Bytes(Len(struct))
       \o RsvMap \o body

\* the offset just past the root's END_NODE tag
RootEnd(root, strings, layout) ==
    HeaderLen + Len(RsvMap) + Len(EncNode(root))
    + (IF layout = "struct-first" THEN 0 ELSE Len(Pad4(strings)))

Layouts == {"struct-first", "strings-first"}

PCompat == MkProp(0, Str_test0)

PName(n) == MkProp(Len(Str_compatible) + 1, SubSeq(PayloadBytes, 1, n))

PropLists ==
    {<<>>, <<PCompat>>}
    \cup {<<PName(n)>> : n \in 0..MaxPayloadLen}
    \cup {<<PCompat, PName(n)>> : n \in 0..MaxPayloadLen}

NameOf(k) == SubSeq(Letters, 1, k)

RECURSIVE Chain(_, _)
Chain(d, n) ==
    MkNode(NameOf(d), IF d % 2 = 1 THEN <<PCompat>> ELSE <<>>,
           IF d = n THEN <<>> ELSE <<Chain(d + 1, n)>>)

Trees ==
    {MkNode(<<>>, ps, <<>>) : ps \in PropLists}
    \cup {MkNode(<<>>, ps, <<MkNode(NameOf(k), qs, <<>>)>>) :
            ps \in {<<>>, <<PCompat>>}, k \in 0..MaxNameLen, qs \in {<<>>, <<PName(1)>>}}
    \cup {MkNode(<<>>, <<>>, <<Chain(1, n)>>) : n \in 1..MaxDepth}
    \cup {MkNode(<<>>, <<PName(2)>>, <<Chain(1, 2), MkNode(NameOf(4), <<>>, <<>>)>>)}

StringsOf(root) == IF HasProps(root) THEN StringsPlain ELSE <<>>

WellFormed ==
    {[buf |-> Blob(17, t, StringsOf(t), l),
      input |-> [kind |-> "well-formed", layout |-> l,
                 rootEnd |-> RootEnd(t, StringsOf(t), l)]] :
        t \in Trees, l \in Layouts}

Versioned ==
    {[buf |-> Blob(v, MkNode(<<>>, <<PCompat>>, <<>>), StringsPlain, "struct-first"),
      input |-> [kind |-> "versioned", layout |-> "struct-first",
                 rootEnd |-> RootEnd(MkNode(<<>>, <<PCompat>>, <<>>), StringsPlain,
                                     "struct-first")]] :
        v \in VersionSet}

\* every prefix of every well-formed blob
Truncated ==
    UNION {{[buf |-> SubSeq(w.buf, 1, cut),
             input |-> [kind |-> "truncated", layout |-> w.input.layout,
                        rootEnd |-> w.input.rootEnd, cut |-> cut]] :
               cut \in 0..(Len(w.buf) - 1)} :
           w \in WellFormed}

\* one END_NODE tag left out: the root's, or the child's
Unclosed ==
    LET open(n) == [n EXCEPT !.closed = FALSE]
        roots ==
            {open(MkNode(<<>>, ps, <<>>)) : ps \in {<<>>, <<PCompat>>}}
            \cup {MkNode(<<>>, ps, <<open(MkNode(NameOf(k), qs, <<>>))>>) :
                    ps \in {<<>>, <<PCompat>>}, k \in 1..MaxNameLen,
                    qs \in {<<>>, <<PName(1)>>}}
    IN {[buf |-> Blob(17, t, StringsOf(t), l),
         input |-> [kind |-> "unclosed", layout |-> l]] :
           t \in roots, l \in Layouts}

\* the one property's length word set to any value
Tampered ==
    {[buf |-> Blob(17, MkNode(<<>>, <<[PCompat EXCEPT !.declared = n]>>, <<>>),
                   StringsOdd, l),
      input |-> [kind |-> "tampered", layout |-> l, declared |-> n]] :
        n \in 0..MaxDeclaredLen, l \in Layouts}

Inputs == WellFormed \cup Versioned \cup Truncated \cup Unclosed \cup Tampered

\* DeviceTreeParser::new(buf), about to call parse()
Init ==
    /\ \E x \in Inputs : buf = x.buf /\ input = x.input
    /\ pos = 0
    /\ string_offset = 0
    /\ last = [op |-> "new", arg |-> 0, pre |-> 0, res |-> Ok(0, <<>>)]
    /\ pc = "start"
    /\ stack = <<>>
    /\ result = "none"
    /\ header = <<>>
    /\ tree = <<>>
    /\ tagLog = <<>>
    /\ propLog = <<>>

Spec == Init /\ [][Next]_vars

----------------------------------------------------------------------------
(* Properties *)

\* the word of the buffer at byte offset p, as a number
WordAt(p) == U32Val(Slice(buf, p, p + 4))

\* the position of the first zero byte at or after p, when there is one
HasZeroFrom(p) == \E i \in (p + 1)..Len(buf) : buf[i] = 0

FirstZeroFrom(p) == (CHOOSE i \in (p + 1)..Len(buf) :
                        buf[i] = 0 /\ \A j \in (p + 1)..(i - 1) : buf[j] # 0) - 1

\* C1: read_string0 returns the bytes from the position it starts at up to,
\* but excluding, the first zero byte, and leaves the position just past
\* that zero byte.  (A property of SpecCursor.)
C1_ReadString0ExcludesTerminator ==
    (last.op = "read_string0" /\ last.res.kind = "Ok") =>
        /\ last.res.val = Slice(buf, last.pre, FirstZeroFrom(last.pre))
        /\ pos = FirstZeroFrom(last.pre) + 1

\* C2: read_bytes(n), peek_bytes(n), peek_u32 and read_u32 (n = 4) succeed
\* whenever position + n <= buffer length, and fail with ReadPastEnd only
\* when position + n exceeds it.  (A property of SpecCursor; an unaligned
\* load that faults is left aside.)
C2_ReadsUpToTheEndSucceed ==
    (/\ last.op \in {"read_bytes", "peek_bytes", "peek_u32_le", "read_u32_le"}
     /\ last.res.kind # "Fault") =>
        /\ last.pre + last.arg <= Len(buf) => last.res.kind = "Ok"
        /\ last.pre + last.arg > Len(buf) => last.res.kind = "ReadPastEnd"

\* C3: when no zero byte lies between the position and the end of the buffer,
\* read_string0 returns ReadPastEnd; it never indexes the buffer at or beyond
\* its length.  (A property of SpecCursor.)
C3_UnterminatedIsReadPastEnd ==
    (last.op = "read_string0" /\ ~HasZeroFrom(last.pre)) =>
        last.res.kind = "ReadPastEnd"

\* C4: parse of a well-formed blob cut to a length strictly smaller than the
\* offset of the end of the root's END_NODE tag returns ReadError or
\* UnexpectedTag, and no tree.
C4_TruncationFails ==
    (input.kind = "truncated" /\ input.cut < input.rootEnd /\ pc = "done") =>
        result \in {"ReadError", "UnexpectedTag"} /\ tree = <<>>

\* a cut inside the structure block, reached after a node and a property tag
\* were consumed
C4_Witness ==
    /\ input.kind = "truncated"
    /\ input.cut < input.rootEnd
    /\ pc = "done"
    /\ result = "ReadError"
    /\ Len(tagLog) >= 2
    /\ pos > header.off_dt_struct

\* C5: a property whose payload, from where it starts in the structure block,
\* would run past the start of the strings block (or the end of the buffer)
\* makes the parse fail: no tree is returned with such a property.
C5_PayloadStaysInStructureBlock ==
    (pc = "done" /\ result = "Ok") =>
        \A i \in 1..Len(propLog) :
            /\ propLog[i].start + propLog[i].len <= Len(buf)
            /\ propLog[i].start < string_offset =>
                   propLog[i].start + propLog[i].len <= string_offset

C7_BlockString0StripsPadding ==
    (/\ last.op = "block_string0"
     /\ HasZeroFrom(last.pre)
     /\ last.pre + 4 * ((FirstZeroFrom(last.pre) - last.pre) \div 4 + 1) <= Len(buf)) =>
        LET k == FirstZeroFrom(last.pre) - last.pre IN
        /\ last.res.kind = "Ok"
        /\ last.res.val = Slice(buf, last.pre, last.pre + k)
        /\ pos = last.pre + 4 * (k \div 4 + 1)

\* C8: a structure block with more BEGIN_NODE than END_NODE tags, followed by
\* FDT_END, makes parse fail with UnexpectedTag.
C8_UnclosedIsUnexpectedTag ==
    (input.kind = "unclosed" /\ pc = "done") => result = "UnexpectedTag"

\* C9: resolving a property's name leaves the cursor where it was: the step
\* of far_string0 never changes the position, whether it succeeds or fails.
C9_NameResolutionKeepsPosition ==
    [][pc = "prop_name" => pos' = pos]_vars

\* the place of a line of parse()/node() in the order the lines are run in
\* between two advances of the cursor
PcRank ==
    CASE pc = "start" -> 0
      [] pc = "gated" -> 1
      [] pc = "seek" -> 2
      [] pc = "name" -> 3
      [] pc = "prop_len" -> 4
      [] pc = "prop_off" -> 5
      [] pc = "prop_data" -> 6
      [] pc = "prop_align" -> 7
      [] pc = "prop_name" -> 8
      [] pc = "props" -> 9
      [] pc = "node" -> 10
      [] pc = "end" -> 11
      [] OTHER -> 12

\* grows with every step of a parse that goes on, and is bounded by the
\* buffer length
Variant == 16 * pos + PcRank

C10_Bounds ==
    /\ pc # "done" => pos <= Len(buf) /\ PcRank < 12
    /\ pc \in {"props", "prop_len", "prop_off", "prop_data", "prop_align",
               "prop_name", "end"} => stack # <<>>
    /\ \A i \in 1..Len(tagLog) : \A j \in 1..Len(tagLog) :
           i < j => tagLog[i].pos < tagLog[j].pos
    /\ tagLog # <<>> => tagLog[Len(tagLog)].pos < pos
    /\ \A i \in 1..Len(tagLog) : tagLog[i].pos + 4 <= Len(buf)
    /\ 8 * Cardinality({i \in 1..Len(tagLog) :
                           tagLog[i].tag \in {"BeginNode", "Property"}}) <= Len(buf)
    /\ 8 * Len(stack) <= Len(buf)

\* C10: parse terminates: every step that does not return raises a variant
\* bounded by the buffer length (the cursor never moves back between steps);
\* the positions of the tags consumed since the seek to off_dt_struct
\* increase strictly and the cursor stays beyond the last of them; the nodes
\* and properties decoded, and the depth of node()'s recursion, are at most
\* buffer length / 8.
C10_TagPositionsIncrease ==
    /\ []C10_Bounds
    /\ [][pc' # "done" => Variant' > Variant]_vars

\* a tree of depth three returned after its properties' names were fetched
\* from a strings block that lies before the structure block
C10_Witness ==
    /\ pc = "done"
    /\ result = "Ok"
    /\ input.layout = "strings-first"
    /\ Len(tagLog) >= 8
    /\ Len(propLog) >= 2
    /\ string_offset < header.off_dt_struct

====
